---------------------------- MODULE Spec2Model ----------------------------
(***************************************************************************)
(* A model of Spart.js: the element builder (createElement,               *)
(* createSVGElement), the toast notifier (toast, removeToast, the         *)
(* toastItems registry and its setTimeout callbacks) and the request      *)
(* wrapper (_fetch, getProblemDetail, asFetchResponse).                   *)
(*                                                                         *)
(* Three specifications share the variables below; each drives one of the *)
(* three utilities and leaves the state of the other two alone:           *)
(*   SpecBuild  - createElement applied to bounded descriptions           *)
(*   SpecToast  - toast / removeToast / timers (FairToast adds fairness)  *)
(*   SpecFetch  - one _fetch call and its promise chain                   *)
(***************************************************************************)
EXTENDS Integers, Sequences, FiniteSets, TLC

VARIABLES
    \* ---- element builder
    bPc,            \* "ready" | "done": position of the caller of createElement
    bInfo,          \* the description passed to createElement
    bParent,        \* the parent argument (NoParent when not supplied)
    bOut,           \* the outcome of the call
    \* ---- toast notifier
    toastItems,     \* the registry: timer id -> toast node
    timers,         \* pending setTimeout callbacks
    nextTimer,      \* the id the next setTimeout call returns
    opacity,        \* opacity[n]: style.opacity of toast node n
    items,          \* items[n]: the element built for toast node n
    containers,     \* number of #toast-container elements in document.body
    children,       \* child nodes of the toast container, in order
    hist,           \* history per toast node (ids handed out, counts of effects)
    lastOp,         \* the operation performed by the last step
    \* ---- request wrapper
    fPc,            \* "idle" | "fetching" | "parsing" | "settled"
    fArgs,          \* arguments of the _fetch call
    fInit,          \* the init object handed to fetch()
    fResponse,      \* the transport's response
    fResult         \* how the promise returned by _fetch settled

buildVars == <<bPc, bInfo, bParent, bOut>>
toastVars == <<toastItems, timers, nextTimer, opacity, items, containers,
               children, hist, lastOp>>
fetchVars == <<fPc, fArgs, fInit, fResponse, fResult>>
vars == <<buildVars, toastVars, fetchVars>>

(***************************************************************************)
(*                          ELEMENT BUILDER                                *)
(***************************************************************************)

\* Bounds of the descriptions explored.
MaxContent == 2

\* A falsy description (null / undefined), the null result, a parent argument
\* that was not supplied.
NullInfo == [null |-> TRUE]
Null == [kind |-> "null"]
NoParent == [absent |-> TRUE]

\* A description with no field set.  element, svg, tag, text, html, callback:
\* "" when absent; attrs: the remaining own keys as <<key, value>> entries
\* (value <<>> for null / undefined, <<v>> otherwise); props likewise;
\* content: the child descriptions; events: the event names.
EmptyInfo ==
    [element |-> "", svg |-> "", tag |-> "", text |-> "", html |-> "",
     attrs |-> <<>>, props |-> <<>>, content |-> <<>>, events |-> <<>>,
     callback |-> ""]

excluded_keys == {"tag", "text", "html", "props", "content", "events", "callback"}

\* Names the DOM rejects with InvalidCharacterError (createElement, setAttribute).
InvalidNames == {"a b"}
\* Properties whose setter throws on an element that has no parent.
ThrowingProps == {"outerHTML"}

\* tagName of an element of an HTML document: the tag in upper case.
Upper(tag) ==
    CASE tag = "div" -> "DIV"
      [] tag = "span" -> "SPAN"
      [] tag = "ul" -> "UL"
      [] tag = "ol" -> "OL"
      [] tag = "li" -> "LI"
      [] tag = "select" -> "SELECT"
      [] tag = "option" -> "OPTION"
      [] OTHER -> tag

\* Outcomes of a call: a returned value or a raised exception, with what was
\* written to the console and the pre-built nodes the call gave a new parent.
Return(v, log) == [threw |-> FALSE, result |-> v, log |-> log, moved |-> {}]
Throw(log) == [threw |-> TRUE, result |-> Null, log |-> log, moved |-> {}]

\* DOMParser.parseFromString(svgString, "image/svg+xml").documentElement
WellFormedSvg == {"<svg xmlns='http://www.w3.org/2000/svg'/>", "<svg/>"}
parseFromString(svgString) ==
    IF svgString \in WellFormedSvg
    THEN [kind |-> "svg", nodeName |-> "svg", src |-> svgString]
    ELSE [kind |-> "svg", nodeName |-> "parsererror", src |-> svgString]

createSVGElement(svgString) ==
    LET svgElem == parseFromString(svgString) IN
    IF svgElem.nodeName = "parsererror"
    THEN Return(Null, <<"error">>)       \* thrown, caught, logged
    ELSE Return(svgElem, <<>>)

\* The already created element named by info.element.
Prebuilt(ref) == [kind |-> "element", ref |-> ref]

\* Lines 42-53: the tag, explicit or inferred from parent.tagName.
DetermineTag(info, parent) ==
    IF info.tag # "" THEN [threw |-> FALSE, tag |-> info.tag, log |-> <<>>]
    ELSE IF parent = NoParent
    THEN [threw |-> TRUE, tag |-> "", log |-> <<>>]   \* undefined.tagName
    ELSE LET p == parent.tagName IN
         IF p = "SELECT" THEN [threw |-> FALSE, tag |-> "OPTION", log |-> <<>>]
         ELSE IF p = "UL" \/ p = "OL"
         THEN [threw |-> FALSE, tag |-> "LI", log |-> <<>>]
         ELSE [threw |-> FALSE, tag |-> "SPAN", log |-> <<"warn">>]

\* document.createElement(tag) followed by the innerText / innerHTML
\* assignments (lines 54-57); innerHTML replaces what innerText set.
NewElement(tag, info) ==
    [kind |-> "created", tagName |-> Upper(tag),
     inner |-> IF info.html # "" THEN <<"html", info.html>>
               ELSE IF info.text # "" THEN <<"text", info.text>>
               ELSE <<>>,
     attributes |-> <<>>, properties |-> <<>>, children |-> <<>>,
     listeners |-> <<>>]

\* Object.entries(info): the structural keys that are set, then the others.
ObjectEntries(info) ==
    (IF info.tag # "" THEN <<<<"tag", <<info.tag>>>>>> ELSE <<>>)
    \o (IF info.text # "" THEN <<<<"text", <<info.text>>>>>> ELSE <<>>)
    \o (IF info.html # "" THEN <<<<"html", <<info.html>>>>>> ELSE <<>>)
    \o (IF info.props # <<>> THEN <<<<"props", <<"object">>>>>> ELSE <<>>)
    \o (IF info.content # <<>> THEN <<<<"content", <<"object">>>>>> ELSE <<>>)
    \o (IF info.events # <<>> THEN <<<<"events", <<"object">>>>>> ELSE <<>>)
    \o (IF info.callback # "" THEN <<<<"callback", <<"function">>>>>> ELSE <<>>)
    \o info.attrs

\* Lines 60-66: the entries that reach elem.setAttribute.
AppliedEntries(entries) ==
    SelectSeq(entries, LAMBDA e : e[2] # <<>> /\ e[1] \notin excluded_keys)

\* Lines 69-75: the props entries that are assigned.
AssignedProps(props) == SelectSeq(props, LAMBDA e : e[2] # <<>>)

SeqHas(s, P(_)) == \E i \in 1..Len(s) : P(s[i])

\* The tree below `node` once the pre-built nodes in `gone` have been given
\* another parent: a DOM node has one parent, so they leave this tree.
RECURSIVE Detach(_, _)
Detach(node, gone) ==
    IF node.kind # "created" THEN node
    ELSE LET kept == SelectSeq(node.children, LAMBDA c : c \notin gone) IN
         [node EXCEPT !.children =
             [i \in 1..Len(kept) |-> Detach(kept[i], gone)]]

\* Mutant of appendChild: the child is inserted first instead of last.
appendChild_Prepend(elem, child) ==
    LET base == IF child.kind = "element" THEN Detach(elem, {child}) ELSE elem
    IN [base EXCEPT !.children = <<child>> \o @]

\* elem.appendChild(child): a pre-built node that already sits in the tree
\* is moved; a node created by this call is new.
appendChild(elem, child) ==
    LET base == IF child.kind = "element" THEN Detach(elem, {child}) ELSE elem
    IN [base EXCEPT !.children = Append(@, child)]

RECURSIVE createElement(_, _)
RECURSIVE AddContent(_, _, _, _, _)
RECURSIVE BuildElement(_, _)

\* Lines 78-83: info.content.forEach(item => ...), from item i on.
\* Yields [threw, elem, log, moved].
AddContent(elem, content, i, log, moved) ==
    IF i > Len(content)
    THEN [threw |-> FALSE, elem |-> elem, log |-> log, moved |-> moved]
    ELSE LET r == createElement(content[i], elem)
             \* what building the item took out of the tree built so far
             e1 == Detach(elem, r.moved)
         IN
         IF r.threw
         THEN [threw |-> TRUE, elem |-> e1, log |-> log \o r.log,
               moved |-> moved \cup r.moved]
         ELSE IF r.result # Null
         THEN AddContent(appendChild(e1, r.result), content, i + 1,
                         log \o r.log,
                         moved \cup r.moved \cup
                            (IF r.result.kind = "element" THEN {r.result}
                             ELSE {}))
         ELSE AddContent(e1, content, i + 1, log \o r.log,
                         moved \cup r.moved)

\* Lines 42-94: the body of the try block.
BuildElement(info, parent) ==
    LET t == DetermineTag(info, parent) IN
    IF t.threw THEN Throw(t.log)
    ELSE IF t.tag \in InvalidNames THEN Throw(t.log)
    ELSE
    LET elem0 == NewElement(t.tag, info)
        applied == AppliedEntries(ObjectEntries(info))
    IN
    IF SeqHas(applied, LAMBDA e : e[1] \in InvalidNames) THEN Throw(t.log)
    ELSE
    LET elem1 == [elem0 EXCEPT !.attributes = applied]
        assigned == AssignedProps(info.props)
    IN
    IF SeqHas(assigned, LAMBDA e : e[1] \in ThrowingProps) THEN Throw(t.log)
    ELSE
    LET elem2 == [elem1 EXCEPT !.properties = assigned]
        c == AddContent(elem2, info.content, 1, t.log, {})
    IN
    IF c.threw THEN [Throw(c.log) EXCEPT !.moved = c.moved]
    ELSE
    LET elem3 == [c.elem EXCEPT !.listeners = info.events] IN
    IF info.callback = "throws" THEN [Throw(c.log) EXCEPT !.moved = c.moved]
    ELSE [Return(elem3, c.log) EXCEPT !.moved = c.moved]

\* Mutant of Catch: the exception is passed on to the caller.
Catch_Rethrow(r) == r

\* Lines 96-99: catch (error) { console.error(error); return null; }
Catch(r) ==
    IF r.threw
    THEN [Return(Null, r.log \o <<"error">>) EXCEPT !.moved = r.moved]
    ELSE r

createElement(info, parent) ==
    IF info = NullInfo THEN Return(Null, <<>>)
    ELSE IF info.element # "" THEN Return(Prebuilt(info.element), <<>>)
    ELSE IF info.svg # "" THEN createSVGElement(info.svg)
    ELSE Catch(BuildElement(info, parent))

\* ---- descriptions and parents the builder is applied to

Parents ==
    {NoParent, [tagName |-> "SELECT"], [tagName |-> "UL"], [tagName |-> "OL"],
     [tagName |-> "DIV"]}

AttrChoices ==
    {<<>>, <<<<"id", <<"a">>>>>>, <<<<"a b", <<"v">>>>>>, <<<<"title", <<>>>>>>,
     <<<<"id", <<"a">>>>, <<"a b", <<>>>>>>}
PropChoices ==
    {<<>>, <<<<"value", <<"v">>>>>>, <<<<"outerHTML", <<"x">>>>>>,
     <<<<"outerHTML", <<>>>>>>}

\* Descriptions without content: every combination of the other fields.
FlatInfos ==
    {[EmptyInfo EXCEPT !.tag = tg, !.text = tx, !.html = h, !.attrs = a,
                       !.props = p, !.events = e, !.callback = cb] :
        tg \in {"", "div", "ul", "a b"}, tx \in {"", "hi"},
        h \in {"", "<b>x</b>"}, a \in AttrChoices, p \in PropChoices,
        e \in {<<>>, <<"click">>}, cb \in {"", "ok", "throws"}}

\* Descriptions that bypass construction.
BypassInfos ==
    {NullInfo}
    \cup {[EmptyInfo EXCEPT !.element = r] : r \in {"e1", "e2"}}
    \cup {[EmptyInfo EXCEPT !.svg = s] :
             s \in {"<svg xmlns='http://www.w3.org/2000/svg'/>", "<svg"}}
    \cup {[EmptyInfo EXCEPT !.element = "e1", !.svg = "<svg", !.tag = "div"]}

\* Content items: bypassing ones, leaves that build, leaves that fail, and
\* items with content of their own.
LeafItems ==
    {EmptyInfo,
     [EmptyInfo EXCEPT !.tag = "li", !.text = "hi"],
     [EmptyInfo EXCEPT !.tag = "a b"],
     [EmptyInfo EXCEPT !.tag = "span", !.callback = "throws"]}
NestedItems ==
    {[EmptyInfo EXCEPT !.tag = "ul", !.content = <<EmptyInfo>>],
     [EmptyInfo EXCEPT !.tag = "div",
                       !.content = <<[EmptyInfo EXCEPT !.element = "e1"]>>],
     [EmptyInfo EXCEPT !.content = <<EmptyInfo, NullInfo,
                                     [EmptyInfo EXCEPT !.element = "e2"]>>],
     [EmptyInfo EXCEPT !.tag = "div", !.callback = "throws",
                       !.content = <<[EmptyInfo EXCEPT !.element = "e1"]>>]}
ContentItems == BypassInfos \cup LeafItems \cup NestedItems

SeqsUpTo(S, n) == UNION {[1..k -> S] : k \in 0..n}

\* Descriptions with content.
NestedInfos ==
    {[EmptyInfo EXCEPT !.tag = tg, !.callback = cb, !.content = c] :
        tg \in {"", "ul", "select", "div"}, cb \in {"", "throws"},
        c \in SeqsUpTo(ContentItems, MaxContent) \ {<<>>}}

Infos == FlatInfos \cup BypassInfos \cup NestedInfos

BuildIdle ==
    /\ bPc = "idle" /\ bInfo = NullInfo /\ bParent = NoParent
    /\ bOut = Return(Null, <<>>)

InitBuild ==
    /\ bPc = "ready"
    /\ bInfo \in Infos
    /\ bParent \in Parents
    /\ bOut = Return(Null, <<>>)

\* The caller: const node = createElement(info, parent)
CallCreateElement ==
    /\ bPc = "ready"
    /\ bOut' = createElement(bInfo, bParent)
    /\ bPc' = "done"
    /\ UNCHANGED <<bInfo, bParent, toastVars, fetchVars>>

(***************************************************************************)
(*                           TOAST NOTIFIER                                *)
(***************************************************************************)

MaxToasts == 2

\* setTimeout delays, in milliseconds.
FadeInDelay == 10
ShortTimeout == 3000
LongTimeout == 6000
FadeOutDelay == 300

Messages == {"saved"}

EmptyRegistry == [k \in {} |-> 0]

\* setTimeout(callback, delay): the pending timers with the new one added;
\* the id returned is nextTimer (ids are handed out in increasing order).
setTimeout(pending, kind, arg, delay) ==
    pending \cup {[id |-> nextTimer, kind |-> kind, arg |-> arg, delay |-> delay]}

\* The order in which the event loop runs timer callbacks: a timer waits for
\* every timer that was set before it with an equal or shorter delay.  How
\* much time passes between two calls of the page is not fixed, so timers
\* not ordered by this rule may run in either order.
CanFire(t) == \A u \in timers : ~(u.id < t.id /\ u.delay <= t.delay)

\* The description toast() hands to createElement (lines 155-158).
ToastInfo(message) ==
    [EmptyInfo EXCEPT !.tag = "div",
                      !.attrs = <<<<"class", <<"toast-message">>>>>>,
                      !.content = <<[EmptyInfo EXCEPT !.tag = "span",
                                                      !.text = message]>>]

\* Mutant of EnsureContainer: a container is created on every call.
EnsureContainer_Always == containers + 1

\* document.getElementById('toast-container'), created when missing
\* (lines 147-152): the number of containers afterwards.
EnsureContainer == IF containers = 0 THEN 1 ELSE containers

\* Mutant of removeToast: the registry entry is kept.
removeToast_NoDelete(id, pending) ==
    IF id \notin DOMAIN toastItems
    THEN /\ timers' = pending
         /\ UNCHANGED <<toastItems, nextTimer, opacity, hist>>
    ELSE LET item == toastItems[id] IN
         /\ opacity' = [opacity EXCEPT ![item] = "0"]
         /\ timers' = setTimeout(pending, "remove", item, FadeOutDelay)
         /\ nextTimer' = nextTimer + 1
         /\ toastItems' = toastItems
         /\ hist' = [hist EXCEPT ![item].fades = @ + 1,
                                 ![item].removals = @ + 1]

\* Mutant of removeToast: item.remove() is never scheduled.
removeToast_NoRemoval(id, pending) ==
    IF id \notin DOMAIN toastItems
    THEN /\ timers' = pending
         /\ UNCHANGED <<toastItems, nextTimer, opacity, hist>>
    ELSE LET item == toastItems[id] IN
         /\ opacity' = [opacity EXCEPT ![item] = "0"]
         /\ timers' = pending
         /\ nextTimer' = nextTimer
         /\ toastItems' = [k \in DOMAIN toastItems \ {id} |-> toastItems[k]]
         /\ hist' = [hist EXCEPT ![item].fades = @ + 1,
                                 ![item].deletes = @ + 1]

\* removeToast(id), lines 129-136.  `pending` is the set of timers pending
\* when it is called.  hist counts, per node, the assignments of opacity '0',
\* the deletions from the registry and the removals scheduled.
removeToast(id, pending) ==
    IF id \notin DOMAIN toastItems
    THEN /\ timers' = pending
         /\ UNCHANGED <<toastItems, nextTimer, opacity, hist>>
    ELSE LET item == toastItems[id] IN
         /\ opacity' = [opacity EXCEPT ![item] = "0"]
         /\ timers' = setTimeout(pending, "remove", item, FadeOutDelay)
         /\ nextTimer' = nextTimer + 1
         /\ toastItems' = [k \in DOMAIN toastItems \ {id} |-> toastItems[k]]
         /\ hist' = [hist EXCEPT ![item].fades = @ + 1,
                                 ![item].deletes = @ + 1,
                                 ![item].removals = @ + 1]

\* toast(message, forLong), lines 145-170.  hist records the id returned.
toast(message, forLong) ==
    LET r == createElement(ToastInfo(message), NoParent)
        node == Len(opacity) + 1
        timeout == IF forLong THEN LongTimeout ELSE ShortTimeout
        fadeIn == setTimeout(timers, "fadeIn", node, FadeInDelay)
        id == nextTimer + 1
    IN
    /\ containers' = EnsureContainer
    /\ IF r.result = Null
       THEN \* toastContainer.appendChild(null) throws
            UNCHANGED <<toastItems, timers, nextTimer, opacity, items,
                        children, hist>>
       ELSE /\ items' = Append(items, r.result)
            /\ opacity' = Append(opacity, "")
            /\ children' = Append(children, node)
            /\ timers' = fadeIn \cup
                  {[id |-> id, kind |-> "dismiss", arg |-> id, delay |-> timeout]}
            /\ nextTimer' = nextTimer + 2
            /\ toastItems' = [k \in DOMAIN toastItems \cup {id} |->
                                 IF k = id THEN node ELSE toastItems[k]]
            /\ hist' = Append(hist, [id |-> id,
                                     fades |-> 0, deletes |-> 0,
                                     removals |-> 0, detached |-> 0])

\* The page calls toast().
CallToast ==
    /\ Len(opacity) < MaxToasts
    /\ \E message \in Messages, forLong \in BOOLEAN : toast(message, forLong)
    /\ lastOp' = [op |-> "toast", id |-> nextTimer + 1]
    /\ UNCHANGED <<buildVars, fetchVars>>

\* The page calls removeToast() with some number.
CallRemoveToast ==
    /\ \E id \in 1..nextTimer :
          /\ removeToast(id, timers)
          /\ lastOp' = [op |-> "removeToast", id |-> id]
    /\ UNCHANGED <<items, containers, children, buildVars, fetchVars>>

\* () => item.style.opacity = '1'   (line 162)
FireFadeIn ==
    \E t \in timers :
       /\ t.kind = "fadeIn" /\ CanFire(t)
       /\ opacity' = [opacity EXCEPT ![t.arg] = "1"]
       /\ timers' = timers \ {t}
       /\ lastOp' = [op |-> "fadeInTimer", id |-> t.id]
       /\ UNCHANGED <<toastItems, nextTimer, items, containers, children, hist,
                      buildVars, fetchVars>>

\* () => removeToast(id)   (line 167)
FireDismiss ==
    \E t \in timers :
       /\ t.kind = "dismiss" /\ CanFire(t)
       /\ removeToast(t.arg, timers \ {t})
       /\ lastOp' = [op |-> "dismissTimer", id |-> t.arg]
       /\ UNCHANGED <<items, containers, children, buildVars, fetchVars>>

\* () => item.remove()   (line 134)
FireRemove ==
    \E t \in timers :
       /\ t.kind = "remove" /\ CanFire(t)
       /\ children' = SelectSeq(children, LAMBDA n : n # t.arg)
       /\ hist' = [hist EXCEPT ![t.arg].detached = @ + 1]
       /\ timers' = timers \ {t}
       /\ lastOp' = [op |-> "removeTimer", id |-> t.id]
       /\ UNCHANGED <<toastItems, nextTimer, opacity, items, containers,
                      buildVars, fetchVars>>

ToastIdle ==
    /\ toastItems = EmptyRegistry /\ timers = {} /\ nextTimer = 1
    /\ opacity = <<>> /\ items = <<>> /\ containers = 0 /\ children = <<>>
    /\ hist = <<>> /\ lastOp = [op |-> "none", id |-> 0]

(***************************************************************************)
(*                          REQUEST WRAPPER                                *)
(***************************************************************************)

\* JavaScript values, tagged by type.  An object carries the three fields of
\* a problem; a field that is not set reads as undefined.
Undef == [t |-> "undefined"]
JNull == [t |-> "null"]
Num(n) == [t |-> "number", n |-> n]
Str(x) == [t |-> "string", s |-> x]
Bool(b) == [t |-> "boolean", b |-> b]
Obj(status, detail, message) ==
    [t |-> "object", status |-> status, detail |-> detail, message |-> message]
FormDataValue == [t |-> "FormData"]
PayloadValue == [t |-> "payload", a |-> 1]

\* ToBoolean(v), as `if (v)` and `!v` apply it.
Truthy(v) ==
    CASE v.t = "undefined" -> FALSE
      [] v.t = "null" -> FALSE
      [] v.t = "number" -> v.n # 0
      [] v.t = "string" -> v.s # ""
      [] v.t = "boolean" -> v.b
      [] OTHER -> TRUE

\* v[key]: undefined on a primitive; a TypeError on null and undefined
\* (CanRead tells them apart).
CanRead(v) == v.t \notin {"undefined", "null"}
GetProp(v, key) ==
    IF v.t # "object" THEN Undef
    ELSE CASE key = "status" -> v.status
           [] key = "detail" -> v.detail
           [] key = "message" -> v.message
\* v[key] = x: outside strict mode an assignment to a property of a
\* primitive is dropped.
SetProp(v, key, x) ==
    IF v.t # "object" THEN v
    ELSE CASE key = "status" -> [v EXCEPT !.status = x]
           [] key = "detail" -> [v EXCEPT !.detail = x]
           [] key = "message" -> [v EXCEPT !.message = x]

\* JSON.stringify(payload)
JSONStringify(payload) ==
    IF payload = PayloadValue THEN Str("{\"a\":1}") ELSE Str("{}")

\* Settled promises.
Fulfilled(v) == [state |-> "fulfilled", value |-> v]
Rejected == [state |-> "rejected", value |-> Undef]
Pending == [state |-> "pending", value |-> Undef]

\* Lines 11-23: the init object handed to fetch().
BuildInit(method, payload, formData) ==
    LET i0 == [method |-> Undef, body |-> Undef, contentType |-> Undef]
        i1 == IF Truthy(method) THEN [i0 EXCEPT !.method = method] ELSE i0
        i2 == IF Truthy(payload)
              THEN [i1 EXCEPT !.body = JSONStringify(payload),
                              !.contentType = Str("application/json")]
              ELSE i1
        i3 == IF Truthy(formData) THEN [i2 EXCEPT !.body = formData] ELSE i2
    IN i3

\* Lines 69-75.
asFetchResponse(problem) ==
    [ok |-> FALSE, status |-> GetProp(problem, "status"), json |-> problem]

\* "An error occurred: " + status
ErrorOccurred(status) == Str("An error occurred: " \o ToString(status))

\* Lines 57-62: the .catch of getProblemDetail.
ProblemFallback(status) ==
    asFetchResponse(Obj(Num(status), ErrorOccurred(status), Undef))

\* Lines 48-56: the .then of getProblemDetail, given the parsed body.
ProblemFromBody(problem, status) ==
    IF ~CanRead(problem) THEN ProblemFallback(status)  \* TypeError, caught
    ELSE
    LET p1 == IF ~Truthy(GetProp(problem, "status"))
              THEN SetProp(problem, "status", Num(status)) ELSE problem
        p2 == IF ~Truthy(GetProp(p1, "detail"))
              THEN SetProp(p1, "detail", GetProp(p1, "message")) ELSE p1
        p3 == IF ~Truthy(GetProp(p2, "detail"))
              THEN SetProp(p2, "detail", ErrorOccurred(status)) ELSE p2
    IN asFetchResponse(p3)

\* Lines 45-63: what the promise of getProblemDetail(response) resolves to.
getProblemDetail(response) ==
    IF response.body.json
    THEN ProblemFromBody(response.body.value, response.status)
    ELSE ProblemFallback(response.status)

\* Mutant of OnFetchError: the error is logged and thrown again.
OnFetchError_Rethrow == Rejected

\* Lines 32-37: the .catch of _fetch.
OnFetchError ==
    Fulfilled(asFetchResponse(
        Obj(Num(0), Str("Please check your internet connection"), Undef)))

\* Response.ok
IsOk(response) == response.status >= 200 /\ response.status <= 299

\* ---- what the page passes and what the transport answers

Methods == {Undef, Str("GET"), Str("POST")}
Payloads == {Undef, PayloadValue}
FormDatas == {Undef, FormDataValue}
Statuses == {200, 204, 404, 500}
BodyValues ==
    {JNull, Num(5), Str("Not Found"), Bool(TRUE)}
    \cup {Obj(st, d, m) : st \in {Undef, Num(0), Num(418)},
                          d \in {Undef, Str(""), Str("d")},
                          m \in {Undef, JNull, Str("m")}}
Bodies == {[json |-> FALSE, value |-> Undef]}
          \cup {[json |-> TRUE, value |-> v] : v \in BodyValues}
Responses == {[failed |-> FALSE, status |-> st, body |-> b] :
                 st \in Statuses, b \in Bodies}
NoResponse == [failed |-> FALSE, status |-> 0,
               body |-> [json |-> FALSE, value |-> Undef]]
NetworkError == [failed |-> TRUE, status |-> 0,
                 body |-> [json |-> FALSE, value |-> Undef]]
NoArgs == [method |-> Undef, payload |-> Undef, formData |-> Undef]

FetchIdle ==
    /\ fPc = "idle" /\ fArgs = NoArgs
    /\ fInit = BuildInit(Undef, Undef, Undef)
    /\ fResponse = NoResponse /\ fResult = Pending

\* The page calls _fetch(endpoint, method, payload, formData): lines 10-25.
CallFetch ==
    /\ fPc = "idle"
    /\ \E method \in Methods, payload \in Payloads, formData \in FormDatas :
          /\ fArgs' = [method |-> method, payload |-> payload,
                       formData |-> formData]
          /\ fInit' = BuildInit(method, payload, formData)
    /\ fPc' = "fetching"
    /\ UNCHANGED <<fResponse, fResult, buildVars, toastVars>>

\* fetch() resolves with a response; the first .then runs (lines 26-31).
FetchResolves ==
    /\ fPc = "fetching"
    /\ \E response \in Responses :
          /\ fResponse' = response
          /\ IF IsOk(response)
             THEN fResult' = Fulfilled(response) /\ fPc' = "settled"
             ELSE fResult' = fResult /\ fPc' = "parsing"
    /\ UNCHANGED <<fArgs, fInit, buildVars, toastVars>>

\* fetch() rejects; the .catch runs (lines 32-37).
FetchRejects ==
    /\ fPc = "fetching"
    /\ fResponse' = NetworkError
    /\ fResult' = OnFetchError
    /\ fPc' = "settled"
    /\ UNCHANGED <<fArgs, fInit, buildVars, toastVars>>

\* response.json() settles and getProblemDetail's handlers run.
JsonSettles ==
    /\ fPc = "parsing"
    /\ fResult' = Fulfilled(getProblemDetail(fResponse))
    /\ fPc' = "settled"
    /\ UNCHANGED <<fArgs, fInit, fResponse, buildVars, toastVars>>

\* ---- specifications

InitBuildSpec == InitBuild /\ ToastIdle /\ FetchIdle
NextBuild == CallCreateElement
SpecBuild == InitBuildSpec /\ [][NextBuild]_vars

InitToast == BuildIdle /\ ToastIdle /\ FetchIdle
NextToast ==
    \/ CallToast
    \/ CallRemoveToast
    \/ FireFadeIn
    \/ FireDismiss
    \/ FireRemove
SpecToast == InitToast /\ [][NextToast]_vars
InitFetch == BuildIdle /\ ToastIdle /\ FetchIdle
NextFetch ==
    \/ CallFetch
    \/ FetchResolves
    \/ FetchRejects
    \/ JsonSettles
SpecFetch == InitFetch /\ [][NextFetch]_vars

\* Timers that may run do run: the event loop keeps taking tasks.
FairToast ==
    /\ SpecToast
    /\ WF_vars(FireFadeIn) /\ WF_vars(FireDismiss) /\ WF_vars(FireRemove)

(***************************************************************************)
(*                              PROPERTIES                                 *)
(***************************************************************************)

Range(q) == {q[i] : i \in 1..Len(q)}

\* ---- toast notifier

\* The ids of the toasts whose fade-out has not started.
ActiveIds == {hist[n].id : n \in {m \in 1..Len(hist) : hist[m].fades = 0}}
NodeOf(id) == CHOOSE n \in 1..Len(hist) : hist[n].id = id

C1_Once ==
    \A n \in 1..Len(hist) :
       /\ hist[n].deletes <= 1
       /\ hist[n].fades = hist[n].deletes
       /\ hist[n].removals = hist[n].deletes
C1_Step ==
    lastOp'.op \in {"removeToast", "dismissTimer"} =>
       IF lastOp'.id \in ActiveIds
       THEN LET n == NodeOf(lastOp'.id) IN
            /\ opacity'[n] = "0"
            /\ lastOp'.id \notin DOMAIN toastItems'
            /\ \E t \in timers' \ timers :
                  /\ t.kind = "remove" /\ t.arg = n
                  /\ timers' \ timers = {t}
       ELSE /\ toastItems' = toastItems
            /\ opacity' = opacity
            /\ timers' \subseteq timers
            /\ nextTimer' = nextTimer
\* C1: for every toast the registry entry is deleted at most once, together
\* with the one fade-out and the one scheduled removal of the node; the
\* first of removeToast(id) and the auto-dismiss timer performs them, and
\* every removeToast(id) call or timer firing for an id that is not an active
\* toast changes neither the registry, nor an opacity, nor adds a timer.
C1_Theorem == [](C1_Once) /\ [][C1_Step]_vars
\* The auto-dismiss timer of a toast fires after the toast was removed by
\* hand and its node already left the document.
C1_Witness ==
    /\ lastOp.op = "dismissTimer"
    /\ \E n \in 1..Len(hist) :
          /\ hist[n].id = lastOp.id
          /\ hist[n].detached = 1 /\ hist[n].deletes = 1

C7_Gone(n) ==
    /\ Len(hist) >= n
    /\ hist[n].fades >= 1 /\ hist[n].detached >= 1
    /\ hist[n].id \notin DOMAIN toastItems
    /\ n \notin Range(children)
C7_AllGone ==
    /\ \A n \in 1..Len(hist) : C7_Gone(n)
    /\ DOMAIN toastItems = {} /\ children = <<>>
C7_RemovalAfterFade ==
    \A n \in 1..Len(hist) :
       /\ hist'[n].detached > hist[n].detached => hist[n].fades >= 1
       /\ C7_Gone(n) => C7_Gone(n)'
\* C7: every toast shown is eventually faded out and removed from the
\* document and its registry entry deleted, without a call of the page, and
\* stays so: again and again all toasts shown so far are gone, the registry
\* and the container empty; a node is removed from the document only in a
\* step after the one that started its fade-out.
C7_Theorem == []<>C7_AllGone /\ [][C7_RemovalAfterFade]_vars
\* All toasts were shown and every one of them has faded out and left the
\* document and the registry; no timer is left.
C7_Witness ==
    /\ Len(hist) = MaxToasts
    /\ \A n \in 1..Len(hist) : C7_Gone(n)
    /\ timers = {}

\* C9 (as claimed): once the fade-out of a node has started (opacity '0')
\* its opacity is never set back to '1'.
C9_Claim ==
    [][\A n \in 1..Len(opacity) : opacity[n] = "0" => opacity'[n] = "0"]_vars

\* C10: the keys of the registry are exactly the ids returned by toast() for
\* the toasts whose fade-out has not started; each key is the id of that
\* toast's pending auto-dismiss timer and maps to that toast's node; no
\* node is registered twice; registered nodes are in the container, of
\* which there is at most one.
C10_Theorem ==
    /\ DOMAIN toastItems = ActiveIds
    /\ \A n \in 1..Len(hist) :
          hist[n].fades = 0 =>
             /\ toastItems[hist[n].id] = n
             /\ \E t \in timers :
                   t.id = hist[n].id /\ t.kind = "dismiss" /\ t.arg = t.id
             /\ n \in Range(children)
    /\ \A j, k \in DOMAIN toastItems :
          toastItems[j] = toastItems[k] => j = k
    /\ containers <= 1
\* Two toasts are registered at once, after toast() ran twice.
C10_Witness ==
    /\ Cardinality(DOMAIN toastItems) = 2
    /\ containers = 1

\* ---- request wrapper

\* C2: the promise returned by _fetch is fulfilled, never rejected, and
\* when the transport fails it is fulfilled with ok = false, status 0 and a
\* problem of status 0 and the fixed detail.
C2_Theorem ==
    /\ fResult.state \in {"pending", "fulfilled"}
    /\ fPc = "settled" => fResult.state = "fulfilled"
    /\ (fPc = "settled" /\ fResponse.failed) =>
          /\ fResult.value.ok = FALSE
          /\ fResult.value.status = Num(0)
          /\ GetProp(fResult.value.json, "status") = Num(0)
          /\ GetProp(fResult.value.json, "detail")
                = Str("Please check your internet connection")
C2_Witness ==
    fPc = "settled" /\ fResponse.failed /\ fResult.state = "fulfilled"

\* C3 (as claimed): for a response that is not ok with HTTP status s, the
\* wrapper has ok = false; the problem's status is the body's when the body
\* parsed and carries one (a non-zero number), else s; its detail is the
\* body's detail, else the body's message (a non-empty string), else
\* "An error occurred: " + s; the wrapper's status is the problem's, a
\* number, and the detail is a non-empty string.
C3_Claim ==
    (fPc = "settled" /\ ~fResponse.failed /\ ~IsOk(fResponse)) =>
       LET st == fResponse.status
           b == fResponse.body
           w == fResult.value
           bodyStatus == IF b.json THEN GetProp(b.value, "status") ELSE Undef
           bodyDetail == IF b.json THEN GetProp(b.value, "detail") ELSE Undef
           bodyMessage == IF b.json THEN GetProp(b.value, "message") ELSE Undef
           expStatus == IF Truthy(bodyStatus) THEN bodyStatus ELSE Num(st)
           expDetail == IF Truthy(bodyDetail) THEN bodyDetail
                        ELSE IF Truthy(bodyMessage) THEN bodyMessage
                        ELSE ErrorOccurred(st)
       IN /\ w.ok = FALSE
          /\ GetProp(w.json, "status") = expStatus
          /\ GetProp(w.json, "detail") = expDetail
          /\ w.status = GetProp(w.json, "status")
          /\ w.status.t = "number"
          /\ GetProp(w.json, "detail").t = "string"
          /\ GetProp(w.json, "detail").s # ""

\* C4 (as claimed): the request carries the JSON content type exactly when
\* its body is the serialized payload; when formData is given the body is
\* formData and no content type is set; the method is set exactly when given.
C4_Claim ==
    fPc # "idle" =>
       /\ (fInit.contentType = Str("application/json"))
             <=> (Truthy(fArgs.payload)
                  /\ fInit.body = JSONStringify(fArgs.payload))
       /\ Truthy(fArgs.formData) =>
             fInit.body = fArgs.formData /\ fInit.contentType = Undef
       /\ IF Truthy(fArgs.method) THEN fInit.method = fArgs.method
          ELSE fInit.method = Undef

\* ---- element builder

\* The description is built, not bypassed.
Built(info) == info # NullInfo /\ info.element = "" /\ info.svg = ""
\* An exception is raised by a step of the call's own, tag inference aside.
OtherFault(info) ==
    \/ info.tag \in InvalidNames
    \/ \E i \in 1..Len(info.attrs) :
          info.attrs[i][2] # <<>> /\ info.attrs[i][1] \in InvalidNames
    \/ \E i \in 1..Len(info.props) :
          info.props[i][2] # <<>> /\ info.props[i][1] \in ThrowingProps
    \/ info.callback = "throws"
OwnFault(info, parent) ==
    (info.tag = "" /\ parent = NoParent) \/ OtherFault(info)

\* C5: createElement raises nothing; it returns a node or null, and null
\* when a step of its own raised an exception.
C5_Theorem ==
    bPc = "done" =>
       /\ ~bOut.threw
       /\ bOut.result.kind \in {"null", "element", "svg", "created"}
       /\ (Built(bInfo) /\ OwnFault(bInfo, bParent)) => bOut.result = Null
\* The callback raised after the content had been appended.
C5_Witness ==
    /\ bPc = "done" /\ Built(bInfo)
    /\ bInfo.callback = "throws" /\ bInfo.content # <<>>
    /\ ~OwnFault([bInfo EXCEPT !.callback = ""], bParent)
    /\ bOut.result = Null

\* C6 (as claimed): a description without a tag yields a node: an OPTION in
\* a SELECT, an LI in a UL or OL, else a SPAN, and, when no parent is given,
\* a SPAN with a warning logged.
C6_Claim ==
    (bPc = "done" /\ Built(bInfo) /\ bInfo.tag = "" /\ ~OtherFault(bInfo)) =>
       /\ bOut.result # Null
       /\ bOut.result.tagName =
             (IF bParent = NoParent THEN "SPAN"
              ELSE IF bParent.tagName = "SELECT" THEN "OPTION"
              ELSE IF bParent.tagName \in {"UL", "OL"} THEN "LI"
              ELSE "SPAN")
       /\ bParent = NoParent => "warn" \in Range(bOut.log)

\* The results of building each content item, nulls left out.
ItemResults(info, elem) ==
    SelectSeq([i \in 1..Len(info.content) |->
                  createElement(info.content[i], elem).result],
              LAMBDA r : r # Null)
\* The pre-built nodes a description names, with repetitions.
RECURSIVE Refs(_)
RECURSIVE RefsFrom(_, _)
RefsFrom(content, i) ==
    IF i > Len(content) THEN <<>>
    ELSE Refs(content[i]) \o RefsFrom(content, i + 1)
Refs(info) ==
    IF info = NullInfo THEN <<>>
    ELSE IF info.element # "" THEN <<info.element>>
    ELSE IF info.svg # "" THEN <<>>
    ELSE RefsFrom(info.content, 1)
NoRepeatedRef(info) ==
    LET r == Refs(info) IN \A i, j \in 1..Len(r) : r[i] = r[j] => i = j

\* C8 (as claimed): the children of the node are the non-null results of
\* building the content items, in order, and the node is returned.
C8_Claim ==
    (bPc = "done" /\ Built(bInfo) /\ ~OwnFault(bInfo, bParent)) =>
       /\ bOut.result # Null
       /\ bOut.result.children = ItemResults(bInfo, bOut.result)
\* C8 (amended): the same, for descriptions that name no pre-built node
\* more than once.
C8_Theorem ==
    (bPc = "done" /\ Built(bInfo) /\ ~OwnFault(bInfo, bParent)
       /\ NoRepeatedRef(bInfo)) =>
       /\ bOut.result # Null
       /\ bOut.result.children = ItemResults(bInfo, bOut.result)
\* Of two content items one built to null: the other one is the only child.
C8_Witness ==
    /\ bPc = "done" /\ Built(bInfo) /\ NoRepeatedRef(bInfo)
    /\ Len(bInfo.content) = 2
    /\ bOut.result # Null
    /\ Len(bOut.result.children) = 1
=============================================================================
